---------------------------- MODULE Spec2Model ----------------------------
(***************************************************************************)
(* The entity synchronisation and mutation hooks of the portfolio admin:   *)
(* the four manager hooks (project, about-me, testimonial, contact) with   *)
(* their connectivity/auth gate, rate limiter and validated mutations, the *)
(* remote collection they write to, and the public testimonial fetcher.    *)
(*                                                                         *)
(* A hook's React state is modelled twice: state[h] is the state with      *)
(* every queued setState updater applied, rendered[h] is the state the     *)
(* current render captured, which is what the hook's closures              *)
(* (validateOperation, checkRateLimit, the mutation functions) read.       *)
(* Render(h) commits state[h] to rendered[h].                              *)
(***************************************************************************)
EXTENDS Integers, Sequences, FiniteSets, TLC

VARIABLES
    entity,     \* which manager hook is instantiated in this behaviour
    now,        \* Date.now(), in milliseconds since the hooks mounted
    state,      \* state[h]: hook h's state, all queued updaters applied
    rendered,   \* rendered[h]: the state captured by hook h's current render
    pending,    \* pending[h]: mutation calls of hook h awaiting the backend
    last,       \* last[h]: how the call that most recently returned or threw ended
    passed,     \* passed[h][k]: times at which checkRateLimit(k) returned normally
    remote,     \* the documents of the entity's remote collection
    nextId,     \* the next document id the backend assigns
    fetcher,    \* the public fetcher hook: its state and whether it is mounted
    cache,      \* the fetcher's localStorage entry, or NoCache
    fetches,    \* the fetcher's remote reads and listeners awaiting the backend
    loadedAt,   \* history: when the browser last completed a load from the
                \* network since the last refresh call, or NoTime
    mirror,     \* mirror[h]: the entity list (or object) of manager hook h, its
                \* loading flag, and whether its snapshot listener is open
    tab,        \* the admin tab's form: mode, form data, saving, success toast
    timers      \* the due times of the admin tab's pending setTimeout callbacks

vars == <<entity, now, state, rendered, pending, last, passed, remote, nextId,
          fetcher, cache, fetches, loadedAt, mirror, tab, timers>>

\* The variables of what the admin page shows, which no mutation touches.
viewVars == <<mirror, tab, timers>>

\* The variables of the public fetcher hook, which no manager hook touches.
fetcherVars == <<fetcher, cache, fetches, loadedAt>>
\* The variables of the manager hooks, which the fetcher does not touch.
managerVars == <<state, rendered, pending, last, passed, nextId>>

-----------------------------------------------------------------------------
(* Bounds of the model *)

NumSessions == 2
MaxCalls == 1
MaxPasses == 5
MaxPending == 1
MaxDocs == 2
TicksPerWindow == 2
MaxTicks == 3
MaxFetches == 2
MaxCacheTicks == 3
TicksPerToast == 3
MaxToastTicks == 5

(* Program constants *)

WindowMs == 60000
CreateLimit == 5
UpdateLimit == 10
ContactUpdateLimit == 15
DeleteLimit == 3
MinMessageLength == 10

TickMs == WindowMs \div TicksPerWindow

Sessions == 1..NumSessions
Entities == {"project", "aboutMe", "testimonial", "contact"}
Singletons == {"aboutMe", "contact"}
Kinds == {"create", "update", "delete"}
Users == {"u1"}
NoUser == "null"

-----------------------------------------------------------------------------
(* Strings are sequences of one-character strings. *)

RECURSIVE TrimStart(_)
TrimStart(s) == IF s # <<>> /\ Head(s) = " " THEN TrimStart(Tail(s)) ELSE s

RECURSIVE TrimEnd(_)
TrimEnd(s) ==
    IF s # <<>> /\ s[Len(s)] = " " THEN TrimEnd(SubSeq(s, 1, Len(s) - 1)) ELSE s

Trim(s) == TrimEnd(TrimStart(s))

Rep(c, n) == [i \in 1..n |-> c]

Empty == <<>>
Blank == <<" ">>
Word == <<" ", "a">>

\* new URL(url) of the WHATWG parser succeeds on an absolute URL: after the
\* surrounding spaces are stripped, a scheme of letters followed by ":".
IsValidURL(u) ==
    LET t == Trim(u) IN
    /\ Len(t) >= 2
    /\ t[1] = "a"
    /\ \E i \in 2..Len(t) : t[i] = ":" /\ \A j \in 1..(i - 1) : t[j] = "a"

GoodURL == <<"a", ":", "a">>
BadURL == <<"a", "a">>

-----------------------------------------------------------------------------
(* Errors: the message of a thrown Error and of the hook's error state. *)

NoError == [text |-> "null", op |-> "", secs |-> 0]
Msg(t) == [text |-> t, op |-> "", secs |-> 0]

OfflineError == Msg("No internet connection. Please check your network and try again.")
AuthCheckingError == Msg("Authentication check in progress. Please wait a moment.")
SignedOutError == Msg("You must be signed in to perform this action. Please log in and try again.")
RateLimitError(op, secs) ==
    [text |-> "Rate limit exceeded for ${operation} operation. Please wait ${secondsRemaining} seconds before trying again.",
     op |-> op, secs |-> secs]


\* A FirestoreError rejected by the backend client: it carries a code.
BackendCodes == {"permission-denied", "unavailable", "unauthenticated", "not-found"}
FirestoreError(code) == [code |-> code, message |-> [text |-> "FirestoreError.message", op |-> code, secs |-> 0]]
\* A plain Error thrown by the hook itself: no code.
PlainError(m) == [code |-> "", message |-> m]

CreateNoun(e) ==
    CASE e = "project" -> "projects"
      [] e = "aboutMe" -> "about me"
      [] e = "testimonial" -> "testimonials"
      [] e = "contact" -> "contact information"

UpdateNoun(e) ==
    CASE e = "project" -> "projects"
      [] e = "aboutMe" -> "about me"
      [] e = "testimonial" -> "testimonials"
      [] e = "contact" -> "contact"

ThisNoun(e) ==
    CASE e = "project" -> "project"
      [] e = "aboutMe" -> "about me"
      [] e = "testimonial" -> "testimonial"
      [] e = "contact" -> "contact"

NotFoundText(e) ==
    CASE e = "project" -> "Project not found"
      [] e = "aboutMe" -> "About me not found"
      [] e = "testimonial" -> "Testimonial not found"
      [] e = "contact" -> "Contact not found"

\* The catch block of a create function: the message stored and re-thrown.
CreateCatch(e, err) ==
    IF err.code = "permission-denied"
    THEN [text |-> "Permission denied. You do not have access to create ${X}.", op |-> CreateNoun(e), secs |-> 0]
    ELSE IF err.code = "unavailable"
    THEN Msg("Firebase is unavailable. Check your internet connection.")
    ELSE IF err.code = "unauthenticated"
    THEN [text |-> "Authentication required. Please sign in to create ${X}.", op |-> CreateNoun(e), secs |-> 0]
    ELSE err.message

\* The catch block of an update or delete function (verb is "update"/"delete").
WriteCatch(e, verb, err) ==
    IF err.code = "not-found"
    THEN Msg(NotFoundText(e))
    ELSE IF err.code = "permission-denied"
    THEN [text |-> IF verb = "update"
                   THEN "Permission denied. You do not have access to update this ${X}."
                   ELSE "Permission denied. You do not have access to delete this ${X}.",
          op |-> ThisNoun(e), secs |-> 0]
    ELSE IF err.code = "unauthenticated"
    THEN [text |-> IF verb = "update"
                   THEN "Authentication required. Please sign in to update ${X}."
                   ELSE "Authentication required. Please sign in to delete ${X}.",
          op |-> UpdateNoun(e), secs |-> 0]
    ELSE err.message

CatchMessage(e, kind, err) ==
    IF kind = "create" THEN CreateCatch(e, err) ELSE WriteCatch(e, kind, err)

-----------------------------------------------------------------------------
(* The gate and the rate limiter, as the closures of one render compute them *)

RATE_LIMITS(e) ==
    [create |-> CreateLimit,
     update |-> IF e = "contact" THEN ContactUpdateLimit ELSE UpdateLimit,
     delete |-> DeleteLimit]

InitialState(online) ==
    [isOnline |-> online,
     authChecking |-> TRUE,
     user |-> NoUser,
     error |-> NoError,
     rateLimitInfo |-> [k \in Kinds |-> [count |-> 0, resetTime |-> 0 + WindowMs]]]

\* The fields of the state that the closures of a render read.
Captured(st) ==
    [isOnline |-> st.isOnline, authChecking |-> st.authChecking,
     user |-> st.user, rateLimitInfo |-> st.rateLimitInfo]

\* validateOperation without its signed-in check.
validateOperationAnyUser(st) ==
    IF ~st.isOnline THEN OfflineError
    ELSE IF st.authChecking THEN AuthCheckingError
    ELSE NoError

\* validateOperation without its connectivity check.
validateOperationAnyNetwork(st) ==
    IF st.authChecking THEN AuthCheckingError
    ELSE IF st.user = NoUser THEN SignedOutError
    ELSE NoError

\* validateOperation testing the user before authChecking.
validateOperationUserFirst(st) ==
    IF ~st.isOnline THEN OfflineError
    ELSE IF st.user = NoUser THEN SignedOutError
    ELSE IF st.authChecking THEN AuthCheckingError
    ELSE NoError

\* validateOperation: the error it throws, or NoError when it returns.
validateOperation(st) ==
    IF ~st.isOnline THEN OfflineError
    ELSE IF st.authChecking THEN AuthCheckingError
    ELSE IF st.user = NoUser THEN SignedOutError
    ELSE NoError

\* Math.ceil(ms / 1000) for ms >= 0
CeilSeconds(ms) == (ms + 999) \div 1000

\* checkRateLimit rejecting only above the limit (count > limit).
checkRateLimitAboveLimit(limitInfo, op, t, limit) ==
    IF t >= limitInfo.resetTime
    THEN [throws |-> NoError, write |-> TRUE,
          info |-> [count |-> 0, resetTime |-> t + WindowMs]]
    ELSE IF limitInfo.count > limit
    THEN [throws |-> RateLimitError(op, CeilSeconds(limitInfo.resetTime - t)),
          write |-> FALSE, info |-> limitInfo]
    ELSE [throws |-> NoError, write |-> TRUE,
          info |-> [count |-> limitInfo.count + 1, resetTime |-> limitInfo.resetTime]]

\* checkRateLimit opening a window of two minutes on reset.
checkRateLimitLongWindow(limitInfo, op, t, limit) ==
    IF t >= limitInfo.resetTime
    THEN [throws |-> NoError, write |-> TRUE,
          info |-> [count |-> 0, resetTime |-> t + 2 * WindowMs]]
    ELSE IF limitInfo.count >= limit
    THEN [throws |-> RateLimitError(op, CeilSeconds(limitInfo.resetTime - t)),
          write |-> FALSE, info |-> limitInfo]
    ELSE [throws |-> NoError, write |-> TRUE,
          info |-> [count |-> limitInfo.count + 1, resetTime |-> limitInfo.resetTime]]

\* checkRateLimit letting a call pass without counting it.
checkRateLimitUncharged(limitInfo, op, t, limit) ==
    IF t >= limitInfo.resetTime
    THEN [throws |-> NoError, write |-> TRUE,
          info |-> [count |-> 0, resetTime |-> t + WindowMs]]
    ELSE IF limitInfo.count >= limit
    THEN [throws |-> RateLimitError(op, CeilSeconds(limitInfo.resetTime - t)),
          write |-> FALSE, info |-> limitInfo]
    ELSE [throws |-> NoError, write |-> FALSE, info |-> limitInfo]

\* checkRateLimit(operation): limitInfo is state.rateLimitInfo[operation] of the
\* render's closure. throws: the error or NoError; write: whether setState is
\* called, and info: the value it stores for the operation.
checkRateLimit(limitInfo, op, t, limit) ==
    IF t >= limitInfo.resetTime
    THEN [throws |-> NoError, write |-> TRUE,
          info |-> [count |-> 0, resetTime |-> t + WindowMs]]
    ELSE IF limitInfo.count >= limit
    THEN [throws |-> RateLimitError(op, CeilSeconds(limitInfo.resetTime - t)),
          write |-> FALSE, info |-> limitInfo]
    ELSE [throws |-> NoError, write |-> TRUE,
          info |-> [count |-> limitInfo.count + 1, resetTime |-> limitInfo.resetTime]]

-----------------------------------------------------------------------------
(* Payloads, field validation and the documents written *)

\* The create payloads tried, per entity: a valid one and ones that fail (or,
\* for the testimonial message, should fail) validation.
CreatePayloads(e) ==
    CASE e = "project" ->
            {[name |-> Word, description |-> Word, category |-> Word],
             [name |-> Blank, description |-> Word, category |-> Word],
             [name |-> Word, description |-> Empty, category |-> Word]}
      [] e = "aboutMe" ->
            {[name |-> Word, title |-> Word, bio |-> Word, skillCategories |-> <<"frontend">>],
             [name |-> Empty, title |-> Word, bio |-> Word, skillCategories |-> <<>>],
             [name |-> Word, title |-> Word, bio |-> Blank, skillCategories |-> <<>>]}
      [] e = "testimonial" ->
            {[clientName |-> Word, message |-> Rep("m", MinMessageLength), approved |-> TRUE],
             [clientName |-> Word, message |-> Rep("m", MinMessageLength), approved |-> FALSE],
             [clientName |-> Word, message |-> Rep("m", MinMessageLength - 1), approved |-> FALSE],
             [clientName |-> Blank, message |-> Rep("m", MinMessageLength), approved |-> FALSE]}
      [] e = "contact" ->
            {[groups |-> {"availableHours", "hotline", "socialLinks"},
              weekdays |-> Word, phone |-> Word, location |-> Word, facebook |-> GoodURL],
             [groups |-> {"availableHours", "socialLinks"},
              weekdays |-> Word, phone |-> Word, location |-> Word, facebook |-> GoodURL],
             [groups |-> {"availableHours", "hotline", "socialLinks"},
              weekdays |-> Word, phone |-> Word, location |-> Word, facebook |-> BadURL]}

\* A createdAt value held by the caller (the admin form passes the one of the
\* testimonial it edits): a time that is no server time of the model.
CallerTime == 0 - 5000

\* The update payloads tried: has is the set of fields present (not undefined).
UpdatePayloads(e) ==
    CASE e = "project" ->
            {[has |-> {"name"}, val |-> [name |-> <<"b", " ">>]],
             [has |-> {"name"}, val |-> [name |-> Blank]]}
      [] e = "aboutMe" ->
            {[has |-> {"bio"}, val |-> [bio |-> <<"b", " ">>]],
             [has |-> {"bio"}, val |-> [bio |-> Blank]],
             [has |-> {"skillCategories"}, val |-> [skillCategories |-> <<"backend">>]]}
      [] e = "testimonial" ->
            {[has |-> {"approved"}, val |-> [approved |-> TRUE]],
             [has |-> {"approved"}, val |-> [approved |-> FALSE]],
             [has |-> {"message"}, val |-> [message |-> Rep("m", MinMessageLength - 1)]],
             [has |-> {"approved", "createdAt"},
              val |-> [approved |-> TRUE, createdAt |-> CallerTime]]}
      [] e = "contact" ->
            {[has |-> {"phone"}, val |-> [phone |-> <<"b", " ">>]],
             [has |-> {"facebook"}, val |-> [facebook |-> BadURL]]}

\* `!s || s.trim() === ''`
IsBlank(s) == s = Empty \/ Trim(s) = Empty

\* validateContactData(data, isUpdate): groups are the nested objects present,
\* url the socialLinks.facebook of the payload when one is given.
validateContactData(groups, hasUrl, url, isUpdate) ==
    IF ~isUpdate /\ "availableHours" \notin groups
    THEN Msg("Available hours information is required")
    ELSE IF ~isUpdate /\ "hotline" \notin groups
    THEN Msg("Hotline information is required")
    ELSE IF ~isUpdate /\ "socialLinks" \notin groups
    THEN Msg("Social links information is required")
    ELSE IF hasUrl /\ url # Empty /\ Trim(url) # Empty /\ ~IsValidURL(url)
    THEN [text |-> "Invalid URL format: ${url}", op |-> "facebook", secs |-> 0]
    ELSE NoError

\* The field validation of a create function: the error thrown, or NoError.
ValidateCreate(e, p) ==
    CASE e = "project" ->
            IF IsBlank(p.name) THEN Msg("Name is required")
            ELSE IF IsBlank(p.description) THEN Msg("Description is required")
            ELSE IF IsBlank(p.category) THEN Msg("Category is required")
            ELSE NoError
      [] e = "aboutMe" ->
            IF IsBlank(p.name) THEN Msg("Name is required")
            ELSE IF IsBlank(p.title) THEN Msg("Title is required")
            ELSE IF IsBlank(p.bio) THEN Msg("Bio is required")
            ELSE NoError
      [] e = "testimonial" ->
            IF IsBlank(p.clientName) THEN Msg("Client Name is required") ELSE NoError
      [] e = "contact" ->
            validateContactData(p.groups, "socialLinks" \in p.groups, p.facebook, FALSE)

\* The validation of an update function, after the id check.
ValidateUpdate(e, p) ==
    CASE e = "project" ->
            IF "name" \in p.has /\ Trim(p.val.name) = Empty
            THEN Msg("Name cannot be empty") ELSE NoError
      [] e = "aboutMe" ->
            IF "bio" \in p.has /\ Trim(p.val.bio) = Empty
            THEN Msg("Bio cannot be empty") ELSE NoError
      [] e = "testimonial" -> NoError
      [] e = "contact" ->
            validateContactData({}, "facebook" \in p.has,
                                IF "facebook" \in p.has THEN p.val.facebook ELSE Empty, TRUE)

IdRequiredError(e) ==
    CASE e = "project" -> Msg("Project ID is required")
      [] e = "aboutMe" -> Msg("About me ID is required")
      [] e = "testimonial" -> Msg("Testimonial ID is required")
      [] e = "contact" -> Msg("Contact ID is required")

AlreadyExistsError(e) ==
    IF e = "aboutMe"
    THEN Msg("About me profile already exists. Please update the existing one instead of creating a new one.")
    ELSE Msg("Contact information already exists. Please update the existing one instead of creating a new one.")

\* docData of a create function: the fields written (strings trimmed).
DocData(e, p) ==
    CASE e = "project" ->
            [name |-> Trim(p.name), description |-> Trim(p.description),
             category |-> Trim(p.category)]
      [] e = "aboutMe" ->
            [name |-> Trim(p.name), title |-> Trim(p.title), bio |-> Trim(p.bio),
             skillCategories |-> p.skillCategories]
      [] e = "testimonial" ->
            [clientName |-> Trim(p.clientName), message |-> Trim(p.message),
             approved |-> p.approved]
      [] e = "contact" ->
            [weekdays |-> Trim(p.weekdays), phone |-> Trim(p.phone),
             location |-> Trim(p.location), facebook |-> Trim(p.facebook)]

\* A value of updateData: trimmed where the update function trims it.
UpdateValue(e, f, v) ==
    IF e = "testimonial" /\ f = "approved" THEN v ELSE Trim(v)

\* The payload fields an update function copies into updateData.
UpdateFields(e) ==
    CASE e = "project" -> {"name", "description", "category"}
      [] e = "aboutMe" -> {"name", "title", "bio"}
      [] e = "testimonial" -> {"clientName", "message", "approved", "createdAt"}
      [] e = "contact" -> {"weekdays", "phone", "location", "facebook"}

\* updateData applied by updateDoc to the stored fields: only the fields present.
ApplyUpdate(e, data, p) ==
    [f \in DOMAIN data |->
        IF f \in p.has \cap UpdateFields(e) THEN UpdateValue(e, f, p.val[f]) ELSE data[f]]

\* createdAt of the document after updateDoc: updateTestimonial copies the
\* payload's createdAt into updateData, the other update functions do not.
UpdatedCreatedAt(e, d, p) ==
    IF "createdAt" \in p.has \cap UpdateFields(e) THEN p.val.createdAt ELSE d.createdAt

NoTime == -1

\* The document addDoc stores: createdBy/updatedAt are stamped by every create
\* function except createTestimonial, which stamps createdAt only.
NewDoc(e, id, data, uid, t) ==
    [id |-> id, data |-> data,
     createdBy |-> IF e = "testimonial" THEN NoUser ELSE uid,
     createdAt |-> t,
     updatedAt |-> IF e = "testimonial" THEN NoTime ELSE t,
     updatedBy |-> NoUser]

-----------------------------------------------------------------------------
(* Initial state: the hooks have just mounted *)

SeedPayload(e) ==
    CHOOSE p \in CreatePayloads(e) :
        ValidateCreate(e, p) = NoError /\ (e = "testimonial" => p.approved)

\* A document written to the collection before the hooks mounted.
SeedDoc(e) == NewDoc(e, 1, DocData(e, SeedPayload(e)), "u1", 0)

\* useState of a read hook (shouldFetch is true); the mount effect has not
\* run. data is the list exposed, or the one object (<<>> for null).
NewFetcher == [data |-> <<>>, loading |-> TRUE, error |-> NoError, phase |-> "new"]

NoCache == [present |-> FALSE, data |-> <<>>, timestamp |-> 0]

NoCall == [kind |-> "none", status |-> "none", error |-> NoError, id |-> 0]

\* useState of a manager hook: the list is empty (the object null) and loading
\* is true; the listener effect has subscribed.
NewMirror == [data |-> <<>>, loading |-> TRUE, listening |-> TRUE]

\* useState of an admin tab (and the mode its parent holds): view mode, an
\* empty form, not saving, no toast. dirty: the form holds the user's input;
\* call: the hook call the handler awaits; shownAt: when the latest success
\* message was set; logged: the call whose failure the tab logged last.
NewTab == [mode |-> "view", dirty |-> FALSE, saving |-> FALSE, call |-> "none",
           successMessage |-> "", shownAt |-> NoTime, logged |-> "none"]

Init ==
    /\ entity \in Entities
    /\ now = 0
    /\ \E online \in BOOLEAN :
          state = [h \in Sessions |-> InitialState(IF h = 1 THEN online ELSE TRUE)]
    /\ rendered = [h \in Sessions |-> Captured(state[h])]
    /\ pending = [h \in Sessions |-> <<>>]
    /\ last = [h \in Sessions |-> NoCall]
    /\ passed = [h \in Sessions |-> [k \in Kinds |-> <<>>]]
    /\ remote \in {{}, {SeedDoc(entity)}}
    /\ nextId = Cardinality(remote) + 1
    /\ fetcher = NewFetcher
    /\ cache = NoCache
    /\ fetches = <<>>
    /\ loadedAt = NoTime
    /\ mirror = [h \in Sessions |-> NewMirror]
    /\ tab = NewTab
    /\ timers = {}

-----------------------------------------------------------------------------
(* Browser and identity-provider events, and React's re-render *)

handleOnline(h) ==
    /\ state' = [state EXCEPT ![h].isOnline = TRUE, ![h].error = NoError]
    /\ UNCHANGED <<entity, now, rendered, pending, last, passed, remote, nextId>>
    /\ UNCHANGED <<fetcherVars, viewVars>>

handleOffline(h) ==
    /\ state' = [state EXCEPT ![h].isOnline = FALSE,
                              ![h].error = Msg("No internet connection. Please check your network.")]
    /\ UNCHANGED <<entity, now, rendered, pending, last, passed, remote, nextId>>
    /\ UNCHANGED <<fetcherVars, viewVars>>

\* The onAuthStateChanged observer: user is a signed-in user or NoUser.
AuthStateChanged(h, user) ==
    /\ state' = [state EXCEPT ![h].user = user, ![h].authChecking = FALSE,
                              ![h].error = IF user # NoUser THEN NoError ELSE @]
    /\ UNCHANGED <<entity, now, rendered, pending, last, passed, remote, nextId>>
    /\ UNCHANGED <<fetcherVars, viewVars>>

AuthStateError(h) ==
    /\ state' = [state EXCEPT ![h].authChecking = FALSE,
                              ![h].error = Msg("Authentication error occurred")]
    /\ UNCHANGED <<entity, now, rendered, pending, last, passed, remote, nextId>>
    /\ UNCHANGED <<fetcherVars, viewVars>>

\* React re-renders the hook: its closures now capture the latest state.
Render(h) ==
    /\ rendered[h] # Captured(state[h])
    /\ rendered' = [rendered EXCEPT ![h] = Captured(state[h])]
    /\ UNCHANGED <<entity, now, state, pending, last, passed, remote, nextId>>
    /\ UNCHANGED <<fetcherVars, viewVars>>

Recent(log, t) == SelectSeq(log, LAMBDA x : x > t - WindowMs)

\* Time passes. Passes older than one window are dropped from the log.
Tick ==
    /\ now < MaxTicks * TickMs
    /\ now' = now + TickMs
    /\ passed' = [h \in Sessions |-> [k \in Kinds |-> Recent(passed[h][k], now')]]
    /\ UNCHANGED <<entity, state, rendered, pending, last, remote, nextId>>
    /\ UNCHANGED <<fetcherVars, viewVars>>

-----------------------------------------------------------------------------
(* The mutation functions, up to their first await *)

Thrown(kind, msg) == [kind |-> kind, status |-> "thrown", error |-> msg, id |-> 0]
Returned(kind, id) == [kind |-> kind, status |-> "returned", error |-> NoError, id |-> id]

\* A mutation function that validates the id but not the fields.
ValidatePayloadIdOnly(e, kind, id, p) ==
    IF kind # "create" /\ id = 0 THEN IdRequiredError(e) ELSE NoError

\* The field validation a mutation function runs between the limiter and the
\* remote call: the error thrown, or NoError.
ValidatePayload(e, kind, id, p) ==
    IF kind = "create" THEN ValidateCreate(e, p)
    ELSE IF id = 0 THEN IdRequiredError(e)
    ELSE IF kind = "update" THEN ValidateUpdate(e, p)
    ELSE NoError

\* The first remote operation a mutation function issues.
FirstRemoteOp(e, kind) ==
    IF kind = "create" THEN (IF e \in Singletons THEN "getDocs" ELSE "addDoc")
    ELSE IF kind = "update" THEN "updateDoc" ELSE "deleteDoc"

RECURSIVE SumLen(_, _)
SumLen(f, ks) ==
    IF ks = {} THEN 0
    ELSE LET k == CHOOSE x \in ks : TRUE IN Len(f[k]) + SumLen(f, ks \ {k})

TotalPassed(h) == SumLen(passed[h], Kinds)

\* A limiter update that drops the entries of the other kinds.
setRateLimitInfoOnly(prev, kind, info) ==
    [prev EXCEPT !.rateLimitInfo = [k \in Kinds |-> IF k = kind THEN info
                                                   ELSE InitialState(TRUE).rateLimitInfo[k]]]

\* The updater checkRateLimit hands to setState: the entry of the kind is
\* replaced, the rest of the latest state is kept.
setRateLimitInfo(prev, kind, info) == [prev EXCEPT !.rateLimitInfo[kind] = info]

\* createX / updateX / deleteX called on hook h: validateOperation,
\* checkRateLimit, setState(error: null), field validation, then the remote
\* call is issued; a throw goes through the catch block. id is 0 for the
\* empty string. budget bounds the passes kept in the log.
Mutate(h, kind, id, p, budget) ==
    LET cl == rendered[h]
        gate == validateOperation(cl)
        rl == checkRateLimit(cl.rateLimitInfo[kind], kind, now, RATE_LIMITS(entity)[kind])
        invalid == ValidatePayload(entity, kind, id, p)
        limited == setRateLimitInfo(state[h], kind, rl.info)
        thrown == IF gate # NoError THEN gate
                  ELSE IF rl.throws # NoError THEN rl.throws
                  ELSE invalid
        admitted == gate = NoError /\ rl.throws = NoError
    IN
    /\ admitted => TotalPassed(h) < budget
    /\ thrown = NoError => Len(pending[h]) < MaxPending
    /\ passed' = IF admitted
                 THEN [passed EXCEPT ![h][kind] = Append(@, now)]
                 ELSE passed
    /\ IF thrown # NoError
       THEN /\ state' = [state EXCEPT ![h] =
                    [(IF admitted THEN limited ELSE state[h])
                        EXCEPT !.error = CatchMessage(entity, kind, PlainError(thrown))]]
            /\ last' = [last EXCEPT ![h] = Thrown(kind, CatchMessage(entity, kind, PlainError(thrown)))]
            /\ UNCHANGED pending
       ELSE /\ state' = [state EXCEPT ![h] = [limited EXCEPT !.error = NoError]]
            /\ pending' = [pending EXCEPT ![h] =
                    Append(@, [kind |-> kind, pc |-> FirstRemoteOp(entity, kind),
                               id |-> id, payload |-> p,
                               closure |-> [isOnline |-> cl.isOnline,
                                            authChecking |-> cl.authChecking,
                                            user |-> cl.user]])]
            /\ UNCHANGED last
    /\ UNCHANGED <<entity, now, rendered, remote, nextId>>
    /\ UNCHANGED <<fetcherVars, viewVars>>

createEntity(h, p, budget) == Mutate(h, "create", 0, p, budget)
updateEntity(h, id, p, budget) == Mutate(h, "update", id, p, budget)
deleteEntity(h, id, budget) == Mutate(h, "delete", id, [has |-> {}, val |-> <<>>], budget)

-----------------------------------------------------------------------------
(* The backend answers an awaited remote operation *)

Without(q, i) == SubSeq(q, 1, i - 1) \o SubSeq(q, i + 1, Len(q))

\* A catch block that re-throws without storing the message.
RejectUnrecorded(h, i, err) ==
    LET c == pending[h][i]
        msg == CatchMessage(entity, c.kind, err)
    IN
    /\ state' = state
    /\ last' = [last EXCEPT ![h] = Thrown(c.kind, msg)]
    /\ pending' = [pending EXCEPT ![h] = Without(@, i)]

\* The awaited call rejects: the catch block stores the message and re-throws.
Reject(h, i, err) ==
    LET c == pending[h][i]
        msg == CatchMessage(entity, c.kind, err)
    IN
    /\ state' = [state EXCEPT ![h].error = msg]
    /\ last' = [last EXCEPT ![h] = Thrown(c.kind, msg)]
    /\ pending' = [pending EXCEPT ![h] = Without(@, i)]

\* The backend client fails the remote operation in flight.
BackendFails(h, i, code) ==
    /\ i \in DOMAIN pending[h]
    /\ Reject(h, i, FirestoreError(code))
    /\ UNCHANGED <<entity, now, rendered, passed, remote, nextId>>
    /\ UNCHANGED <<fetcherVars, viewVars>>

\* getDocs(query(collection, limit(1))) of createAboutMe / createContact
\* resolves: a non-empty result throws, an empty one goes on to addDoc.
ExistsResponse(h, i) ==
    /\ i \in DOMAIN pending[h]
    /\ pending[h][i].pc = "getDocs"
    /\ IF remote # {}
       THEN Reject(h, i, PlainError(AlreadyExistsError(entity)))
       ELSE /\ pending' = [pending EXCEPT ![h][i].pc = "addDoc"]
            /\ UNCHANGED <<state, last>>
    /\ UNCHANGED <<entity, now, rendered, passed, remote, nextId>>
    /\ UNCHANGED <<fetcherVars, viewVars>>

\* addDoc resolves: the document is stored under a new id, which is returned.
AddResponse(h, i) ==
    /\ i \in DOMAIN pending[h]
    /\ pending[h][i].pc = "addDoc"
    /\ nextId <= MaxDocs
    /\ LET c == pending[h][i] IN
       /\ remote' = remote \cup
                {NewDoc(entity, nextId, DocData(entity, c.payload), c.closure.user, now)}
       /\ last' = [last EXCEPT ![h] = Returned(c.kind, nextId)]
    /\ nextId' = nextId + 1
    /\ pending' = [pending EXCEPT ![h] = Without(@, i)]
    /\ UNCHANGED <<entity, now, state, rendered, passed>>
    /\ UNCHANGED <<fetcherVars, viewVars>>

\* updateDoc resolves: the fields of updateData replace the stored ones; a
\* missing document rejects with not-found.
UpdateResponse(h, i) ==
    /\ i \in DOMAIN pending[h]
    /\ pending[h][i].pc = "updateDoc"
    /\ LET c == pending[h][i] IN
       IF \E d \in remote : d.id = c.id
       THEN /\ remote' = {IF d.id = c.id
                          THEN [d EXCEPT !.data = ApplyUpdate(entity, d.data, c.payload),
                                         !.createdAt = UpdatedCreatedAt(entity, d, c.payload),
                                         !.updatedAt = now,
                                         !.updatedBy = c.closure.user]
                          ELSE d : d \in remote}
            /\ last' = [last EXCEPT ![h] = Returned(c.kind, c.id)]
            /\ pending' = [pending EXCEPT ![h] = Without(@, i)]
            /\ UNCHANGED state
       ELSE /\ Reject(h, i, FirestoreError("not-found"))
            /\ UNCHANGED remote
    /\ UNCHANGED <<entity, now, rendered, passed, nextId>>
    /\ UNCHANGED <<fetcherVars, viewVars>>

\* deleteDoc resolves: the document, if any, is gone.
DeleteResponse(h, i) ==
    /\ i \in DOMAIN pending[h]
    /\ pending[h][i].pc = "deleteDoc"
    /\ remote' = {d \in remote : d.id # pending[h][i].id}
    /\ last' = [last EXCEPT ![h] = Returned("delete", pending[h][i].id)]
    /\ pending' = [pending EXCEPT ![h] = Without(@, i)]
    /\ UNCHANGED <<entity, now, state, rendered, passed, nextId>>
    /\ UNCHANGED <<fetcherVars, viewVars>>

-----------------------------------------------------------------------------
(* The public read hooks: useProjectsFetcher, useAboutMeFetcher and          *)
(* useTestimonialsFetcher (cache, mount effect, refresh) and useContactData  *)
(* (listener, refresh, no cache)                                             *)

CACHE_DURATION == 10 * 60 * 1000

\* The read hooks that keep a localStorage entry: all but useContactData.
Caching(e) == e # "contact"

\* A time held as a Date object and as an ISO string.
DateValue(t) == [type |-> "Date", t |-> t]
IsoString(t) == [type |-> "string", t |-> t]

\* The Testimonial a fetcher builds from a document snapshot.
Testimonial(d) ==
    [id |-> d.id, clientName |-> d.data.clientName, message |-> d.data.message,
     approved |-> d.data.approved, createdAt |-> IsoString(d.createdAt)]

\* The object a read hook builds from a document snapshot.
Mirrored(d) ==
    IF entity = "testimonial" THEN Testimonial(d)
    ELSE [id |-> d.id, data |-> d.data, createdAt |-> DateValue(d.createdAt)]

\* A query without orderBy returns the documents by document id.
RECURSIVE ById(_)
ById(docs) ==
    IF docs = {} THEN <<>>
    ELSE LET d == CHOOSE x \in docs : \A y \in docs : x.id <= y.id
         IN <<d>> \o ById(docs \ {d})

\* orderBy('createdAt', 'desc'): newest first, equal times by id descending.
RECURSIVE ByCreatedAtDesc(_)
ByCreatedAtDesc(docs) ==
    IF docs = {} THEN <<>>
    ELSE LET d == CHOOSE x \in docs : \A y \in docs :
                      \/ x.createdAt > y.createdAt
                      \/ x.createdAt = y.createdAt /\ x.id >= y.id
         IN <<d>> \o ByCreatedAtDesc(docs \ {d})

\* limit(1)
Limit1(q) == IF q = <<>> THEN <<>> ELSE <<q[1]>>

\* snapshot.forEach: one object per document, in the query's order.
Testimonials(q) == [i \in 1..Len(q) |-> Mirrored(q[i])]

\* The query of the mount effect. For testimonials: the collection, with no
\* filter and no order.
InitQuery(docs) ==
    CASE entity = "project" -> Testimonials(ByCreatedAtDesc(docs))
      [] entity = "testimonial" -> Testimonials(ById(docs))
      [] OTHER -> Testimonials(Limit1(ByCreatedAtDesc(docs)))

\* The query of the refresh function. For testimonials: approved only, newest
\* first.
RefreshQuery(docs) ==
    CASE entity = "project" -> Testimonials(ByCreatedAtDesc(docs))
      [] entity = "testimonial" ->
            Testimonials(ByCreatedAtDesc({d \in docs : d.data.approved = TRUE}))
      [] OTHER -> Testimonials(Limit1(ByCreatedAtDesc(docs)))

\* JSON.parse(JSON.stringify(data)): a Date comes back as a string.
JsonRoundTrip(data) ==
    [i \in 1..Len(data) |-> [data[i] EXCEPT !.createdAt = IsoString(@.t)]]

\* A loadFromCache that has no age check: every entry is served.
loadFromCacheAnyAge(c, t) ==
    IF ~c.present THEN [hit |-> FALSE, data |-> <<>>, cache |-> c]
    ELSE [hit |-> TRUE,
          data |-> IF entity = "aboutMe"
                   THEN [i \in 1..Len(c.data) |->
                            [c.data[i] EXCEPT !.createdAt = DateValue(@.t)]]
                   ELSE c.data,
          cache |-> c]

\* loadFromCache: hit with the data, or a miss; a stale entry is removed.
\* useAboutMeFetcher turns createdAt into a Date again.
loadFromCache(c, t) ==
    IF ~c.present THEN [hit |-> FALSE, data |-> <<>>, cache |-> c]
    ELSE IF t - c.timestamp > CACHE_DURATION
    THEN [hit |-> FALSE, data |-> <<>>, cache |-> NoCache]
    ELSE [hit |-> TRUE,
          data |-> IF entity = "aboutMe"
                   THEN [i \in 1..Len(c.data) |->
                            [c.data[i] EXCEPT !.createdAt = DateValue(@.t)]]
                   ELSE c.data,
          cache |-> c]

saveToCache(data, t) == [present |-> TRUE, data |-> JsonRoundTrip(data), timestamp |-> t]

\* The mount effect of a caching hook runs initializeProjects /
\* initializeAboutMe / initializeTestimonials up to its await.
initializeEntity ==
    /\ Caching(entity)
    /\ fetcher.phase = "new"
    /\ Len(fetches) < MaxFetches
    /\ LET l == loadFromCache(cache, now) IN
       /\ cache' = l.cache
       /\ IF l.hit
          THEN /\ fetcher' = [data |-> l.data, loading |-> FALSE,
                              error |-> NoError, phase |-> "mounted"]
               /\ UNCHANGED fetches
          ELSE /\ fetcher' = [fetcher EXCEPT !.loading = TRUE, !.error = NoError,
                                             !.phase = "mounted"]
               /\ fetches' = Append(fetches, [kind |-> "init", cancelled |-> FALSE])
    /\ UNCHANGED <<entity, now, remote, loadedAt>>
    /\ UNCHANGED <<managerVars, viewVars>>

\* A refresh that leaves the cache entry in place.
refreshEntityKeepingCache ==
    /\ Caching(entity)
    /\ fetcher.phase = "mounted"
    /\ Len(fetches) < MaxFetches
    /\ cache' = cache
    /\ fetcher' = [fetcher EXCEPT !.loading = TRUE, !.error = NoError]
    /\ fetches' = Append(fetches, [kind |-> "refresh", cancelled |-> FALSE])
    /\ loadedAt' = NoTime
    /\ UNCHANGED <<entity, now, remote>>
    /\ UNCHANGED <<managerVars, viewVars>>

\* refreshProjects / refreshAboutMe / refreshTestimonials up to its await:
\* the cache entry is removed first.
refreshEntity ==
    /\ Caching(entity)
    /\ fetcher.phase = "mounted"
    /\ Len(fetches) < MaxFetches
    /\ cache' = NoCache
    /\ fetcher' = [fetcher EXCEPT !.loading = TRUE, !.error = NoError]
    /\ fetches' = Append(fetches, [kind |-> "refresh", cancelled |-> FALSE])
    /\ loadedAt' = NoTime
    /\ UNCHANGED <<entity, now, remote>>
    /\ UNCHANGED <<managerVars, viewVars>>

\* The catch block of a caching hook: fall back to the cache entry, if
\* loadFromCache finds one.
FetchCatch(i, message) ==
    LET l == loadFromCache(cache, now) IN
    /\ cache' = l.cache
    /\ fetcher' =
         IF fetches[i].cancelled THEN fetcher
         ELSE IF l.hit
         THEN [fetcher EXCEPT !.data = l.data, !.loading = FALSE,
                              !.error = Msg("Using cached data due to fetch error")]
         ELSE [fetcher EXCEPT !.data = <<>>, !.loading = FALSE, !.error = message]
    /\ fetches' = Without(fetches, i)
    /\ UNCHANGED loadedAt

\* getDocs of a caching hook resolves: the result is cached, and shown unless
\* the effect was cancelled (mount fetch) or the hook unmounted (refresh). An
\* empty about-me snapshot throws.
FetchResolves(i) ==
    /\ Caching(entity)
    /\ i \in DOMAIN fetches
    /\ LET data == IF fetches[i].kind = "init" THEN InitQuery(remote)
                   ELSE RefreshQuery(remote)
       IN
       IF entity = "aboutMe" /\ data = <<>>
       THEN FetchCatch(i, Msg("No user data found"))
       ELSE /\ cache' = saveToCache(data, now)
            /\ fetcher' = IF fetches[i].cancelled THEN fetcher
                          ELSE [fetcher EXCEPT !.data = data, !.loading = FALSE,
                                               !.error = NoError]
            /\ fetches' = Without(fetches, i)
            /\ loadedAt' = now
    /\ UNCHANGED <<entity, now, remote>>
    /\ UNCHANGED <<managerVars, viewVars>>

\* getDocs of a caching hook rejects.
FetchRejects(i) ==
    /\ Caching(entity)
    /\ i \in DOMAIN fetches
    /\ FetchCatch(i, FirestoreError("unavailable").message)
    /\ UNCHANGED <<entity, now, remote>>
    /\ UNCHANGED <<managerVars, viewVars>>

\* The listener effect of useContactData (realtime is true): onSnapshot.
listenContact ==
    /\ ~Caching(entity)
    /\ fetcher.phase = "new"
    /\ Len(fetches) < MaxFetches
    /\ fetcher' = [fetcher EXCEPT !.phase = "mounted"]
    /\ fetches' = Append(fetches, [kind |-> "listen", cancelled |-> FALSE])
    /\ UNCHANGED <<entity, now, remote, cache, loadedAt>>
    /\ UNCHANGED <<managerVars, viewVars>>

\* refresh of useContactData up to its await.
refreshContact ==
    /\ ~Caching(entity)
    /\ fetcher.phase = "mounted"
    /\ Len(fetches) < MaxFetches
    /\ fetcher' = [fetcher EXCEPT !.loading = TRUE, !.error = NoError]
    /\ fetches' = Append(fetches, [kind |-> "refresh", cancelled |-> FALSE])
    /\ loadedAt' = NoTime
    /\ UNCHANGED <<entity, now, remote, cache>>
    /\ UNCHANGED <<managerVars, viewVars>>

\* getErrorMessage of useContactData, for the failure the backend gives.
getErrorMessage == Msg("Firebase is currently unavailable. Please try again later.")

\* useContactData receives a snapshot (listener) or the result of getDocs
\* (refresh): the contact is replaced; nothing is stored in localStorage. A
\* listener stays open. An instance that unmounted takes no state update.
ContactSnapshot(i) ==
    /\ ~Caching(entity)
    /\ i \in DOMAIN fetches
    /\ LET data == InitQuery(remote) IN
       /\ fetcher' = IF fetches[i].cancelled THEN fetcher
                     ELSE IF data = <<>>
                     THEN [fetcher EXCEPT !.data = <<>>, !.loading = FALSE]
                     ELSE [fetcher EXCEPT !.data = data, !.loading = FALSE,
                                          !.error = NoError]
       /\ loadedAt' = IF fetches[i].cancelled THEN loadedAt ELSE now
    /\ fetches' = IF fetches[i].kind = "listen" THEN fetches ELSE Without(fetches, i)
    /\ UNCHANGED <<entity, now, remote, cache>>
    /\ UNCHANGED <<managerVars, viewVars>>

\* The listener's error callback, or the catch block of refresh: the message
\* is stored, the contact is kept.
ContactError(i) ==
    /\ ~Caching(entity)
    /\ i \in DOMAIN fetches
    /\ fetcher' = IF fetches[i].cancelled THEN fetcher
                  ELSE [fetcher EXCEPT !.error = getErrorMessage, !.loading = FALSE]
    /\ fetches' = Without(fetches, i)
    /\ UNCHANGED <<entity, now, remote, cache, loadedAt>>
    /\ UNCHANGED <<managerVars, viewVars>>

\* An unmount whose cleanup unsubscribes the listener but marks no read.
FetcherUnmountLeavingReads ==
    /\ fetcher.phase = "mounted"
    /\ fetcher' = [fetcher EXCEPT !.phase = "unmounted"]
    /\ fetches' = SelectSeq(fetches, LAMBDA f : f.kind # "listen")
    /\ UNCHANGED <<entity, now, remote, cache, loadedAt>>
    /\ UNCHANGED <<managerVars, viewVars>>

\* The component unmounts: the effect's cleanup sets cancelled and
\* isMountedRef (caching hooks) or unsubscribes the listener (contact).
FetcherUnmount ==
    /\ fetcher.phase = "mounted"
    /\ fetcher' = [fetcher EXCEPT !.phase = "unmounted"]
    /\ fetches' = LET open == SelectSeq(fetches, LAMBDA f : f.kind # "listen")
                  IN [i \in DOMAIN open |-> [open[i] EXCEPT !.cancelled = TRUE]]
    /\ UNCHANGED <<entity, now, remote, cache, loadedAt>>
    /\ UNCHANGED <<managerVars, viewVars>>

\* The component mounts again: a new hook instance, the same localStorage.
FetcherRemount ==
    /\ fetcher.phase = "unmounted"
    /\ fetcher' = NewFetcher
    /\ UNCHANGED <<entity, now, remote, cache, fetches, loadedAt>>
    /\ UNCHANGED <<managerVars, viewVars>>

\* Time passes, in steps of half the cache's freshness window.
CacheTick ==
    /\ now < MaxCacheTicks * (CACHE_DURATION \div 2)
    /\ now' = now + CACHE_DURATION \div 2
    /\ UNCHANGED <<entity, remote>>
    /\ UNCHANGED managerVars
    /\ UNCHANGED <<fetcherVars, viewVars>>

-----------------------------------------------------------------------------
(* The workloads checked *)

Ids == 0..MaxDocs

Environment(h) ==
    \/ handleOnline(h)
    \/ handleOffline(h)
    \/ \E u \in Users \cup {NoUser} : AuthStateChanged(h, u)
    \/ AuthStateError(h)
    \/ Render(h)

Backend(h) ==
    \E i \in 1..MaxPending :
        \/ ExistsResponse(h, i)
        \/ AddResponse(h, i)
        \/ UpdateResponse(h, i)
        \/ DeleteResponse(h, i)

MutationCalls(h, creates, updates, ids, budget) ==
    \/ \E p \in creates : createEntity(h, p, budget)
    \/ \E id \in ids, p \in updates : updateEntity(h, id, p, budget)
    \/ \E id \in ids : deleteEntity(h, id, budget)

FirstUpdate(e) ==
    CHOOSE p \in UpdatePayloads(e) :
        ValidateUpdate(e, p) = NoError /\ "message" \notin p.has

\* The gate workload: one admin session, every browser and auth event, and
\* calls with a valid payload on document 1.
Next ==
    \E h \in {1} :
        \/ Environment(h)
        \/ Backend(h)
        \/ \E i \in 1..MaxPending : BackendFails(h, i, "unavailable")
        \/ MutationCalls(h, {SeedPayload(entity)}, {FirstUpdate(entity)}, {1}, MaxCalls)

Spec == Init /\ [][Next]_vars

\* The validation workload: a signed-in session and every payload and id.
ValidationNext ==
    \E h \in {1} :
        \/ AuthStateChanged(h, "u1")
        \/ Render(h)
        \/ Backend(h)
        \/ \E i \in 1..MaxPending : BackendFails(h, i, "unavailable")
        \/ MutationCalls(h, CreatePayloads(entity), UpdatePayloads(entity), Ids, MaxCalls)

ValidationSpec == Init /\ [][ValidationNext]_vars

\* No call of another kind has passed the limiter of hook h.
OnlyKind(h, kind) ==
    \A k \in Kinds \ {kind} :
        state[h].rateLimitInfo[k] = InitialState(TRUE).rateLimitInfo[k]

\* The limiter workload: a signed-in session making calls of one kind, each
\* awaited and followed by a render before the next, while time passes.
LimiterNext ==
    \/ Tick
    \/ \E h \in {1} :
        \/ AuthStateChanged(h, "u1")
        \/ Render(h)
        \/ Backend(h)
        \/ \E k \in Kinds :
              /\ OnlyKind(h, k)
              /\ pending[h] = <<>>
              /\ rendered[h] = Captured(state[h])
              /\ MutationCalls(h, {SeedPayload(entity)}, {FirstUpdate(entity)}, {1}, MaxPasses)

LimiterSpec == Init /\ [][LimiterNext]_vars

\* The closure workload: a signed-in session whose calls may be made from a
\* render older than the latest state (two calls in one event handler, or a
\* handler that goes on after an await), within the first limiter window.
ClosureNext ==
    \E h \in {1} :
        \/ AuthStateChanged(h, "u1")
        \/ Render(h)
        \/ Backend(h)
        \/ MutationCalls(h, {SeedPayload(entity)}, {FirstUpdate(entity)}, {1}, DeleteLimit + 1)

ClosureSpec == Init /\ [][ClosureNext]_vars

\* The race workload: two signed-in admin sessions creating a singleton.
RaceNext ==
    \E h \in Sessions :
        \/ AuthStateChanged(h, "u1")
        \/ Render(h)
        \/ \E i \in 1..MaxPending : ExistsResponse(h, i) \/ AddResponse(h, i)
        \/ entity \in Singletons /\ createEntity(h, SeedPayload(entity), MaxCalls)

RaceSpec == Init /\ [][RaceNext]_vars

\* The testimonials a public page may find in the collection.
PublishedDoc ==
    NewDoc("testimonial", 1,
           DocData("testimonial", [clientName |-> Word, message |-> Rep("m", MinMessageLength),
                                   approved |-> TRUE]), NoUser, 0 - 2000)
UnapprovedDoc ==
    NewDoc("testimonial", 2,
           DocData("testimonial", [clientName |-> Word, message |-> Rep("m", MinMessageLength),
                                   approved |-> FALSE]), NoUser, 0 - 1000)
RecentDoc ==
    NewDoc("testimonial", 3,
           DocData("testimonial", [clientName |-> Word, message |-> Rep("m", MinMessageLength),
                                   approved |-> TRUE]), NoUser, 0 - 500)

\* A document of the entity older than SeedDoc.
OlderDoc(e) == NewDoc(e, 2, DocData(e, SeedPayload(e)), "u1", 0 - 1000)

\* The documents a read hook may find in its collection.
Collection(e) ==
    IF e = "testimonial" THEN {PublishedDoc, UnapprovedDoc, RecentDoc}
    ELSE {SeedDoc(e), OlderDoc(e)}

FetcherInit ==
    /\ entity \in Entities
    /\ now = 0
    /\ state = [h \in Sessions |-> InitialState(TRUE)]
    /\ rendered = [h \in Sessions |-> Captured(state[h])]
    /\ pending = [h \in Sessions |-> <<>>]
    /\ last = [h \in Sessions |-> NoCall]
    /\ passed = [h \in Sessions |-> [k \in Kinds |-> <<>>]]
    /\ remote \in SUBSET Collection(entity)
    /\ nextId = Cardinality(remote) + 1
    /\ fetcher = NewFetcher
    /\ cache = NoCache
    /\ fetches = <<>>
    /\ loadedAt = NoTime
    /\ mirror = [h \in Sessions |-> NewMirror]
    /\ tab = NewTab
    /\ timers = {}

\* An admin session elsewhere adds a document to the collection.
CollectionChanges ==
    /\ \E d \in Collection(entity) \ remote : remote' = remote \cup {d}
    /\ UNCHANGED <<entity, now>>
    /\ UNCHANGED managerVars
    /\ UNCHANGED <<fetcherVars, viewVars>>

FetcherNext ==
    \/ initializeEntity
    \/ refreshEntity
    \/ \E i \in 1..MaxFetches : FetchResolves(i) \/ FetchRejects(i)
    \/ listenContact
    \/ refreshContact
    \/ \E i \in 1..MaxFetches : ContactSnapshot(i) \/ ContactError(i)
    \/ FetcherUnmount
    \/ FetcherRemount
    \/ CacheTick
    \/ CollectionChanges

FetcherSpec == FetcherInit /\ [][FetcherNext]_vars

\* One instance of a caching read hook that stays mounted and starts a read
\* only when none is in flight.
SoloNext ==
    \/ fetches = <<>> /\ initializeEntity
    \/ fetches = <<>> /\ refreshEntity
    \/ \E i \in 1..MaxFetches : FetchResolves(i) \/ FetchRejects(i)
    \/ CacheTick
    \/ CollectionChanges

SoloInit == FetcherInit /\ Caching(entity)

SoloSpec == SoloInit /\ [][SoloNext]_vars

-----------------------------------------------------------------------------
(* The claims *)

\* A call of kind k as the gate and limiter workloads make it on hook h.
Attempt(h, k, budget) ==
    IF k = "create" THEN createEntity(h, SeedPayload(entity), budget)
    ELSE IF k = "update" THEN updateEntity(h, 1, FirstUpdate(entity), budget)
    ELSE deleteEntity(h, 1, budget)

\* The call made in this step threw msg before any remote operation.
FailsWith(h, k, msg) ==
    /\ last'[h] = Thrown(k, msg)
    /\ state'[h].error = msg
    /\ pending' = pending
    /\ remote' = remote

\* C1: every remote operation in flight (existence read, add, update or
\* delete), on every hook, was issued by a call whose render had isOnline
\* true, authChecking false and a non-null user.
C1_GatedRemoteOps ==
    \A h \in Sessions : \A i \in DOMAIN pending[h] :
        /\ pending[h][i].pc \in {"getDocs", "addDoc", "updateDoc", "deleteDoc"}
        /\ pending[h][i].closure.isOnline
        /\ ~pending[h][i].closure.authChecking
        /\ pending[h][i].closure.user # NoUser

\* A remote operation is in flight after the session saw every gate event.
C1_Witness ==
    /\ pending[1] # <<>>
    /\ pending[1][1].closure.user = "u1"
    /\ ~state[1].isOnline

\* C2: the list the public testimonial hook exposes holds approved
\* testimonials only.
C2_OnlyApproved ==
    entity = "testimonial" =>
        \A i \in DOMAIN fetcher.data : fetcher.data[i].approved

\* The start of the limiter window of kind k that hook h is in.
WindowStart(h, k) == state[h].rateLimitInfo[k].resetTime - WindowMs

\* The calls of kind k that passed the limiter of hook h in its current window.
AdmittedInWindow(h, k) ==
    Len(SelectSeq(passed[h][k], LAMBDA t : t >= WindowStart(h, k)))

\* C3: at most N calls of a kind are admitted in one limiter window, N the
\* kind's limit.
C3_AtMostLimitPerWindow ==
    \A k \in Kinds : AdmittedInWindow(1, k) <= RATE_LIMITS(entity)[k]

\* The create call of this step passes the gate and the limiter.
CreateAdmitted(h) ==
    /\ validateOperation(rendered[h]) = NoError
    /\ checkRateLimit(rendered[h].rateLimitInfo["create"], "create", now,
                      RATE_LIMITS(entity)["create"]).throws = NoError

\* C4 (original): a create on a singleton collection that holds a document
\* goes on to the existence read, whatever the payload.
C4_ExistsWhateverPayload ==
    [][\A p \in CreatePayloads(entity) :
         (/\ entity \in Singletons
          /\ remote # {}
          /\ CreateAdmitted(1)
          /\ createEntity(1, p, MaxCalls))
         => (/\ Len(pending'[1]) = Len(pending[1]) + 1
             /\ pending'[1][Len(pending'[1])].pc = "getDocs")]_vars

\* A payload of a singleton create that fails a field check of the code.
BadSingletonPayload(p) ==
    IF entity = "aboutMe"
    THEN Trim(p.name) = Empty \/ Trim(p.title) = Empty \/ Trim(p.bio) = Empty
    ELSE \/ {"availableHours", "hotline", "socialLinks"} \ p.groups # {}
         \/ p.facebook = BadURL

\* C4 (amended): an admitted create on a singleton throws its field error,
\* with no existence read, when the payload is invalid; the existence read of
\* a create whose payload is valid throws "already exists" when it finds a
\* document, and nothing is written.
C4_ValidationThenExists ==
    [][/\ \A p \in CreatePayloads(entity) :
            (/\ entity \in Singletons
             /\ CreateAdmitted(1)
             /\ BadSingletonPayload(p)
             /\ createEntity(1, p, MaxCalls))
            => (/\ FailsWith(1, "create", last'[1].error)
                /\ last'[1].error \notin {NoError, AlreadyExistsError(entity)})
       /\ \A i \in 1..MaxPending :
            (remote # {} /\ ExistsResponse(1, i))
            => (/\ last'[1] = Thrown("create", AlreadyExistsError(entity))
                /\ ~BadSingletonPayload(pending[1][i].payload)
                /\ remote' = remote)]_vars

\* An invalid create failed on its field while the collection held a document.
C4_Witness ==
    /\ entity \in Singletons
    /\ remote # {}
    /\ last[1].status = "thrown"
    /\ last[1].kind = "create"
    /\ last[1].error \in {Msg("Name is required"), Msg("Bio is required"),
                          Msg("Hotline information is required")}

\* C5: a singleton collection never holds more than one document.
C5_AtMostOneDocument ==
    entity \in Singletons => Cardinality(remote) <= 1

\* C6: a call made while isOnline is false throws the connectivity error in
\* the call itself and issues no remote operation.
C6_OfflineFailsImmediately ==
    [][\A k \in Kinds :
         (~rendered[1].isOnline /\ Attempt(1, k, MaxCalls))
         => FailsWith(1, k, OfflineError)]_vars

\* An offline call was made and failed with nothing in flight.
C6_Witness ==
    /\ ~rendered[1].isOnline
    /\ last[1].status = "thrown"
    /\ last[1].error = OfflineError
    /\ pending[1] = <<>>

\* C7 (original): a call made while authChecking is true throws the
\* "authentication check in progress" error.
C7_CheckingError ==
    [][\A k \in Kinds :
         (rendered[1].authChecking /\ Attempt(1, k, MaxCalls))
         => FailsWith(1, k, AuthCheckingError)]_vars

\* C7 (amended): a call made while authChecking is true throws the
\* "authentication check in progress" error if the hook is online and the
\* connectivity error if not, and never the "must be signed in" error.
C7_CheckingErrorWhenOnline ==
    [][\A k \in Kinds :
         (rendered[1].authChecking /\ Attempt(1, k, MaxCalls))
         => (/\ FailsWith(1, k, IF rendered[1].isOnline THEN AuthCheckingError
                                ELSE OfflineError)
             /\ last'[1].error # SignedOutError)]_vars

\* An online call failed on the auth check before the observer fired.
C7_Witness ==
    /\ rendered[1].isOnline
    /\ rendered[1].authChecking
    /\ rendered[1].user = NoUser
    /\ last[1].status = "thrown"
    /\ last[1].error = AuthCheckingError

\* The reference transition of the limiter on the state of one kind.
ReferenceStep(info, t, limit) ==
    IF t >= info.resetTime
    THEN [proceeds |-> TRUE, count |-> 0, resetTime |-> t + 60000]
    ELSE IF info.count >= limit
    THEN [proceeds |-> FALSE, count |-> info.count, resetTime |-> info.resetTime]
    ELSE [proceeds |-> TRUE, count |-> info.count + 1, resetTime |-> info.resetTime]

\* C8: on each call that passes the gate, the limiter's state after the call
\* and the call's fate are those of the reference transition; a rejection
\* states the remaining wait in whole seconds, rounded up.
C8_LimiterIsReference ==
    [][\A k \in Kinds :
         (validateOperation(rendered[1]) = NoError /\ Attempt(1, k, MaxPasses))
         => LET info == state[1].rateLimitInfo[k]
                ref == ReferenceStep(info, now, RATE_LIMITS(entity)[k])
            IN
            /\ state'[1].rateLimitInfo[k].count = ref.count
            /\ state'[1].rateLimitInfo[k].resetTime = ref.resetTime
            /\ ref.proceeds <=> passed'[1][k] = Append(passed[1][k], now)
            /\ ref.proceeds => Len(pending'[1]) = Len(pending[1]) + 1
            /\ ~ref.proceeds =>
                  /\ FailsWith(1, k, last'[1].error)
                  /\ passed' = passed
                  /\ last'[1].error.op = k
                  /\ last'[1].error.secs * 1000 >= info.resetTime - now
                  /\ (last'[1].error.secs - 1) * 1000 < info.resetTime - now]_vars

\* A window was reset, filled to the limit, and the next call was rejected.
C8_Witness ==
    \E k \in Kinds :
        /\ state[1].rateLimitInfo[k].resetTime > WindowMs
        /\ state[1].rateLimitInfo[k].count = RATE_LIMITS(entity)[k]
        /\ last[1].status = "thrown"
        /\ last[1].error.op = k
        /\ last[1].error.secs > 0

\* C9: in any 60 seconds at most `limit` calls of a kind pass the limiter
\* (stated for the states whose current limiter window itself holds at most
\* `limit` passes, so that the interval counted straddles a reset).
C9_RollingWindowCap ==
    \A k \in Kinds :
        AdmittedInWindow(1, k) <= RATE_LIMITS(entity)[k]
            => Len(Recent(passed[1][k], now)) <= RATE_LIMITS(entity)[k]

\* C10: no testimonial stored by the hook has a message shorter than 10
\* characters.
C10_ShortMessageNotWritten ==
    entity = "testimonial" =>
        \A d \in remote : Len(d.data.message) >= MinMessageLength

MountStep == fetcher.phase = "new" /\ fetcher'.phase = "mounted"

\* The browser holds the result of a load that completed less than
\* CACHE_DURATION ago, and no refresh has discarded it since.
LoadedRecently == loadedAt # NoTime /\ now - loadedAt < CACHE_DURATION

\* C12: for every entity, a read hook that mounts within ten minutes of a
\* completed load shows that data at once and opens no remote query.
C12_FreshCacheNoNetwork ==
    [][(MountStep /\ LoadedRecently)
       => /\ fetches' = fetches
          /\ ~fetcher'.loading]_vars

\* C13: a read hook that mounts while the cache entry is older than ten
\* minutes does not serve it: the hook shows no data, is loading, has opened
\* one mount query, and the entry is gone. The hook without a cache opens
\* its remote query on every mount.
C13_StaleCacheIsAbsent ==
    [][MountStep
       => /\ (cache.present /\ now - cache.timestamp > CACHE_DURATION)
             => /\ fetcher'.data = <<>>
                /\ fetcher'.loading
                /\ fetches' = Append(fetches, [kind |-> "init", cancelled |-> FALSE])
                /\ ~cache'.present
          /\ ~Caching(entity) => Len(fetches') = Len(fetches) + 1]_vars

\* A caching hook has mounted more than ten minutes after the last load: the
\* entry was dropped and the mount query is in flight.
C13_Witness ==
    /\ Caching(entity)
    /\ fetcher.phase = "mounted" /\ fetcher.loading /\ fetcher.data = <<>>
    /\ loadedAt # NoTime /\ now - loadedAt > CACHE_DURATION
    /\ ~cache.present
    /\ \E i \in DOMAIN fetches : fetches[i].kind = "init" /\ ~fetches[i].cancelled

\* The notice a caching hook shows when it falls back to its cache entry.
CachedDataNotice == Msg("Using cached data due to fetch error")

\* Two result lists hold the same documents in the same order.
SameItems(a, b) == Len(a) = Len(b) /\ \A j \in 1..Len(a) : a[j].id = b[j].id

\* C14: when the remote read of a mounted hook fails and a cache entry
\* exists, of whatever age, the hook shows the entry's data with the 'using
\* cached data' notice; when none exists it shows the error and no data.
C14_FallbackToAnyCache ==
    [][\A i \in 1..MaxFetches :
         (i \in DOMAIN fetches /\ FetchRejects(i) /\ ~fetches[i].cancelled)
         => IF cache.present
            THEN /\ fetcher'.error = CachedDataNotice
                 /\ SameItems(fetcher'.data, cache.data)
            ELSE /\ fetcher'.error \notin {NoError, CachedDataNotice}
                 /\ fetcher'.data = <<>>]_vars

\* What the remote query of read i delivers.
Delivered(i) ==
    IF fetches[i].kind = "refresh" /\ Caching(entity) THEN RefreshQuery(remote)
    ELSE InitQuery(remote)

\* The step in which the remote query of read i delivers a result to the hook.
Delivery(i) ==
    /\ i \in DOMAIN fetches
    /\ ~fetches[i].cancelled
    /\ \/ FetchResolves(i) /\ ~(entity = "aboutMe" /\ Delivered(i) = <<>>)
       \/ ContactSnapshot(i)

\* C15: every result the remote query delivers to a hook becomes the hook's
\* data and the cache entry, stamped with the time of delivery; and a hook
\* that mounted on a fresh cache entry has opened its remote query as well.
C15_SnapshotMirrorsAndCaches ==
    [][/\ \A i \in 1..MaxFetches :
            Delivery(i)
            => /\ fetcher'.data = Delivered(i)
               /\ cache'.present
               /\ cache'.timestamp = now
               /\ SameItems(cache'.data, Delivered(i))
       /\ (MountStep /\ ~fetcher'.loading) => Len(fetches') = Len(fetches) + 1]_vars

\* The step in which the hook's refresh function is called.
RefreshStep == refreshEntity \/ refreshContact

\* C16: a call of refresh leaves no cache entry and starts exactly one
\* re-fetch; when that re-fetch succeeds, the hook's data and the cache entry
\* both hold the fetched result, the entry stamped with the current time.
C16_RefreshUpdatesMirrorAndCache ==
    [][/\ RefreshStep
          => /\ ~cache'.present
             /\ fetches' = Append(fetches, [kind |-> "refresh", cancelled |-> FALSE])
       /\ \A i \in 1..MaxFetches :
            (Delivery(i) /\ fetches[i].kind = "refresh")
            => /\ fetcher'.data = Delivered(i)
               /\ ~fetcher'.loading
               /\ cache'.present
               /\ cache'.timestamp = now
               /\ SameItems(cache'.data, Delivered(i))]_vars

\* C17: the list a read hook exposes for projects or testimonials is ordered
\* by creation time, newest first: no item is older than the item after it.
\* (Stated for lists of approved testimonials; what else the list may hold is
\* C2's subject.)
C17_NewestFirst ==
    (/\ entity \in {"project", "testimonial"}
     /\ entity = "testimonial" => \A i \in DOMAIN fetcher.data : fetcher.data[i].approved)
    => \A i \in 1..(Len(fetcher.data) - 1) :
          fetcher.data[i].createdAt.t >= fetcher.data[i + 1].createdAt.t

\* C18: a create call that succeeds has written one new document stamped
\* with createdBy (the id of the signed-in user who called), createdAt and
\* updatedAt (the server's time of the write), and returns that document's id.
C18_CreateStampsAudit ==
    [][\A i \in 1..MaxPending :
         AddResponse(1, i)
         => \E w \in remote' \ remote :
               /\ w.createdBy = pending[1][i].closure.user
               /\ w.createdBy # NoUser
               /\ w.createdAt = now
               /\ w.updatedAt = now
               /\ last'[1] = Returned("create", w.id)]_vars

\* C19: audit fields come from the mutation layer, never from the payload: a
\* create stamps the server's time, and an update leaves the document's
\* createdAt and createdBy as they were and stamps updatedAt with the server's
\* time and updatedBy with the caller's user id.
C19_AuditNotFromCaller ==
    [][\A i \in 1..MaxPending :
         /\ AddResponse(1, i) => \A w \in remote' \ remote : w.createdAt = now
         /\ \A d \in remote :
               (UpdateResponse(1, i) /\ pending[1][i].id = d.id)
               => \E w \in remote' :
                     /\ w.id = d.id
                     /\ w.createdAt = d.createdAt
                     /\ w.createdBy = d.createdBy
                     /\ w.updatedAt = now
                     /\ w.updatedBy = pending[1][i].closure.user]_vars

\* The gate, the limiter or the validation of the render's closures refuses
\* the call.
Refused(h, kind, id, p) ==
    \/ validateOperation(rendered[h]) # NoError
    \/ checkRateLimit(rendered[h].rateLimitInfo[kind], kind, now,
                      RATE_LIMITS(entity)[kind]).throws # NoError
    \/ ValidatePayload(entity, kind, id, p) # NoError

\* A mutation call of hook h fails in this step: it is refused when made, its
\* existence read finds a document, the backend rejects its remote operation,
\* or its update finds no document.
CallFails(h) ==
    \/ \E p \in CreatePayloads(entity) :
          createEntity(h, p, MaxCalls + MaxPasses) /\ Refused(h, "create", 0, p)
    \/ \E id \in Ids, p \in UpdatePayloads(entity) :
          updateEntity(h, id, p, MaxCalls + MaxPasses) /\ Refused(h, "update", id, p)
    \/ \E id \in Ids :
          /\ deleteEntity(h, id, MaxCalls + MaxPasses)
          /\ Refused(h, "delete", id, [has |-> {}, val |-> <<>>])
    \/ \E i \in 1..MaxPending :
          \/ ExistsResponse(h, i) /\ remote # {}
          \/ BackendFails(h, i, "unavailable")
          \/ UpdateResponse(h, i) /\ ~\E d \in remote : d.id = pending[h][i].id

\* C20: whenever a mutation call fails, for whatever reason, the call throws
\* an error with a message, and the hook's error state holds that same
\* message; the call does not return normally.
C20_FailureRecordedAndRethrown ==
    [][\A h \in Sessions :
         CallFails(h)
         => /\ last'[h].status = "thrown"
            /\ last'[h].error # NoError
            /\ state'[h].error = last'[h].error]_vars

\* A call whose remote operation the backend rejected has thrown, and the
\* hook shows the message it threw.
C20_Witness ==
    \E k \in Kinds :
        /\ last[1] = Thrown(k, CatchMessage(entity, k, FirestoreError("unavailable")))
        /\ state[1].error = last[1].error

\* C25: while a limiter window lasts, the count of each kind is the number of
\* calls of that kind that passed the limiter, whatever renders happened
\* between the calls.
C25_NoLostIncrement ==
    \A k \in Kinds :
        now < state[1].rateLimitInfo[k].resetTime
            => state[1].rateLimitInfo[k].count = AdmittedInWindow(1, k)

\* The call of kind k made on hook h in this state passes the gate and the
\* limiter.
PassesLimiter(h, k) ==
    /\ validateOperation(rendered[h]) = NoError
    /\ checkRateLimit(rendered[h].rateLimitInfo[k], k, now,
                      RATE_LIMITS(entity)[k]).throws = NoError

\* What the limiter stores for a call of kind k made on hook h in this state.
Charged(h, k) ==
    checkRateLimit(rendered[h].rateLimitInfo[k], k, now, RATE_LIMITS(entity)[k]).info

\* A call of kind k on hook h that passed the gate and the limiter fails in
\* this step: at its field validation, or later at its existence read or its
\* remote write.
FailsAfterLimiter(h, k) ==
    \/ /\ PassesLimiter(h, k)
       /\ \/ k = "create" /\ \E p \in CreatePayloads(entity) :
                createEntity(h, p, MaxCalls + MaxPasses)
                /\ ValidatePayload(entity, k, 0, p) # NoError
          \/ k = "update" /\ \E id \in Ids, p \in UpdatePayloads(entity) :
                updateEntity(h, id, p, MaxCalls + MaxPasses)
                /\ ValidatePayload(entity, k, id, p) # NoError
          \/ k = "delete" /\ \E id \in Ids :
                deleteEntity(h, id, MaxCalls + MaxPasses)
                /\ ValidatePayload(entity, k, id, [has |-> {}, val |-> <<>>]) # NoError
    \/ \E i \in 1..MaxPending :
          /\ i \in DOMAIN pending[h]
          /\ pending[h][i].kind = k
          /\ \/ ExistsResponse(h, i) /\ remote # {}
             \/ BackendFails(h, i, "unavailable")
             \/ UpdateResponse(h, i) /\ ~\E d \in remote : d.id = pending[h][i].id

\* C27: a call that passes the gate and the limiter and then fails has been
\* charged like a call that succeeds, and the charge stays. When its field
\* validation fails, the limiter's entry of its kind is already the one
\* checkRateLimit stored (one more than the count its render saw, in a
\* running window) and the pass is on record; when its existence read or
\* remote write fails later, the failure leaves the limiter's entries as
\* they are.
C27_ChargedBeforeValidation ==
    [][\A k \in Kinds :
         FailsAfterLimiter(1, k)
         => /\ last'[1].status = "thrown"
            /\ IF pending' = pending
               THEN /\ state'[1].rateLimitInfo[k] = Charged(1, k)
                    /\ now < rendered[1].rateLimitInfo[k].resetTime
                       => state'[1].rateLimitInfo[k].count
                             = rendered[1].rateLimitInfo[k].count + 1
                    /\ passed'[1][k] = Append(passed[1][k], now)
               ELSE /\ state'[1].rateLimitInfo = state[1].rateLimitInfo
                    /\ passed' = passed]_vars

\* A call was charged and then failed its field validation: nothing is in
\* flight, the call threw, and the count of its kind is one.
C27_Witness ==
    \E k \in Kinds :
        /\ last[1].status = "thrown" /\ last[1].kind = k
        /\ pending[1] = <<>>
        /\ passed[1][k] = <<now>>
        /\ state[1].rateLimitInfo[k].count = 1
        /\ remote \in {{}, {SeedDoc(entity)}}
        /\ nextId = Cardinality(remote) + 1

\* A call of kind k is made on hook h in this step.
Called(h, k) ==
    \/ k = "create" /\ \E p \in CreatePayloads(entity) :
          createEntity(h, p, MaxCalls + MaxPasses)
    \/ k = "update" /\ \E id \in Ids, p \in UpdatePayloads(entity) :
          updateEntity(h, id, p, MaxCalls + MaxPasses)
    \/ k = "delete" /\ \E id \in Ids : deleteEntity(h, id, MaxCalls + MaxPasses)

\* C28: a call that the gate or the limiter rejects leaves the count and
\* resetTime of all three kinds as they were, and a call that is admitted
\* leaves those of the other two kinds as they were.
C28_LimiterFrame ==
    [][\A k \in Kinds :
         Called(1, k)
         => IF PassesLimiter(1, k)
            THEN \A j \in Kinds \ {k} :
                    state'[1].rateLimitInfo[j] = state[1].rateLimitInfo[j]
            ELSE /\ state'[1].rateLimitInfo = state[1].rateLimitInfo
                 /\ last'[1].status = "thrown"]_vars

\* A create was admitted, three deletes were admitted, and a fourth delete was
\* rejected by the limiter: the create's count is still on record.
C28_Witness ==
    /\ state[1].rateLimitInfo["create"].count = 1
    /\ state[1].rateLimitInfo["delete"].count = DeleteLimit
    /\ last[1].status = "thrown"
    /\ last[1].error.op = "delete"
    /\ last[1].error.secs > 0

RECURSIVE Latest(_)
Latest(log) == IF log = <<>> THEN 0
               ELSE IF Head(log) >= Latest(Tail(log)) THEN Head(log)
               ELSE Latest(Tail(log))

\* The time of the latest call of kind k that passed the limiter of hook h,
\* or the time the hook mounted.
LatestLimiterStep(h, k) == Latest(passed[h][k])

\* C29: on every hook and for every kind, the count lies between 0 and the
\* kind's limit, and resetTime is at most one window after the hook's latest
\* limiter step of that kind (or its mount).
C29_LimiterStateBounds ==
    \A h \in Sessions : \A k \in Kinds :
        /\ state[h].rateLimitInfo[k].count >= 0
        /\ state[h].rateLimitInfo[k].count <= RATE_LIMITS(entity)[k]
        /\ state[h].rateLimitInfo[k].resetTime <= LatestLimiterStep(h, k) + WindowMs

\* A window opened by a reset has been filled to the kind's limit.
C29_Witness ==
    \E k \in Kinds :
        /\ state[1].rateLimitInfo[k].count = RATE_LIMITS(entity)[k]
        /\ state[1].rateLimitInfo[k].resetTime > WindowMs
        /\ state[1].rateLimitInfo[k].resetTime <= LatestLimiterStep(1, k) + WindowMs

\* The re-fetch i of a refresh fails in this step: getDocs rejects, or the
\* about-me collection is found empty.
RefreshFails(i) ==
    /\ i \in DOMAIN fetches
    /\ fetches[i].kind = "refresh"
    /\ ~fetches[i].cancelled
    /\ \/ FetchRejects(i)
       \/ FetchResolves(i) /\ entity = "aboutMe" /\ RefreshQuery(remote) = <<>>

\* C26: in a caching read hook used alone, a refresh whose fetch fails ends
\* with no data, not loading, and the fetch's error: not with the 'using
\* cached data' notice, and not with the data shown before the refresh.
C26_FailedRefreshShowsNothing ==
    [][\A i \in 1..MaxFetches :
         RefreshFails(i)
         => /\ fetcher'.data = <<>>
            /\ ~fetcher'.loading
            /\ fetcher'.error \notin {NoError, CachedDataNotice}
            /\ ~cache'.present]_vars

\* A refresh is in flight on a hook that shows data: the entry is gone and
\* the re-fetch may fail.
C26_Witness ==
    /\ fetches = <<[kind |-> "refresh", cancelled |-> FALSE]>>
    /\ fetcher.phase = "mounted"
    /\ fetcher.data # <<>>
    /\ fetcher.loading
    /\ ~cache.present

\* The read i, started by an instance that has since unmounted, completes in
\* this step.
CompletesAfterUnmount(i) ==
    /\ i \in DOMAIN fetches
    /\ fetches[i].cancelled
    /\ FetchResolves(i) \/ FetchRejects(i) \/ ContactSnapshot(i) \/ ContactError(i)

\* C23: once a read hook has unmounted, its listener is gone and its state
\* (data, loading, error) stays as it was at the unmount; a read it started
\* changes no hook state when it completes, neither the unmounted instance's
\* nor that of an instance mounted later.
C23_NoUpdateAfterUnmount ==
    [][/\ fetcher.phase = "unmounted" => fetcher' \in {fetcher, NewFetcher}
       /\ fetcher'.phase = "unmounted"
            => \A i \in DOMAIN fetches' :
                  fetches'[i].kind # "listen" /\ fetches'[i].cancelled
       /\ \A i \in 1..MaxFetches : CompletesAfterUnmount(i) => fetcher' = fetcher]_vars

\* A hook unmounted while its read was in flight; the read has since
\* completed and stored its result, and the hook's state still says loading.
C23_Witness ==
    /\ fetcher.phase = "unmounted"
    /\ fetcher.loading
    /\ fetcher.data = <<>>
    /\ fetches = <<>>
    /\ cache.present
    /\ loadedAt = now


-----------------------------------------------------------------------------
(* The managers' snapshot listeners: the in-memory mirror of the collection  *)

\* The query of a manager hook's listener: newest first, and for the one-object
\* collections the newest document only.
ManagerQueryUnordered(docs) ==
    IF entity \in Singletons THEN Testimonials(Limit1(ById(docs)))
    ELSE Testimonials(ById(docs))

ManagerQuery(docs) ==
    IF entity \in Singletons THEN Testimonials(Limit1(ByCreatedAtDesc(docs)))
    ELSE Testimonials(ByCreatedAtDesc(docs))

\* The listener's success callback, run when the listener is first answered and
\* whenever the query result has changed: the mirror is replaced, loading is
\* cleared, and the error is kept.
ManagerSnapshotWhenSignedIn(h) ==
    /\ state[h].user # NoUser
    /\ mirror[h].listening
    /\ mirror[h].loading \/ mirror[h].data # ManagerQuery(remote)
    /\ mirror' = [mirror EXCEPT ![h].data = ManagerQuery(remote), ![h].loading = FALSE]
    /\ UNCHANGED <<entity, now, state, rendered, pending, last, passed, remote, nextId>>
    /\ UNCHANGED <<fetcherVars, tab, timers>>

ManagerSnapshot(h) ==
    /\ mirror[h].listening
    /\ mirror[h].loading \/ mirror[h].data # ManagerQuery(remote)
    /\ mirror' = [mirror EXCEPT ![h].data = ManagerQuery(remote), ![h].loading = FALSE]
    /\ UNCHANGED <<entity, now, state, rendered, pending, last, passed, remote, nextId>>
    /\ UNCHANGED <<fetcherVars, tab, timers>>

\* The listener's error callback: the message becomes the hook's error and
\* loading is cleared; the backend sends nothing more to a failed listener.
ManagerSnapshotError(h, code) ==
    /\ mirror[h].listening
    /\ mirror' = [mirror EXCEPT ![h].loading = FALSE, ![h].listening = FALSE]
    /\ state' = [state EXCEPT ![h].error = FirestoreError(code).message]
    /\ UNCHANGED <<entity, now, rendered, pending, last, passed, remote, nextId>>
    /\ UNCHANGED <<fetcherVars, tab, timers>>

\* The mirror workload: one admin session with the browser and auth events,
\* creates with a valid payload made from the latest render, one passage of
\* time (so that a document is created at or after the seed's time), and the
\* listener's callbacks.
MirrorNext ==
    \/ pending[1] = <<>> /\ now = 0 /\ Tick
    \/ \E h \in {1} :
        \/ handleOffline(h)
        \/ \E u \in Users \cup {NoUser} : AuthStateChanged(h, u)
        \/ Render(h)
        \/ \E i \in 1..MaxPending : ExistsResponse(h, i) \/ AddResponse(h, i)
        \/ rendered[h] = Captured(state[h]) /\ createEntity(h, SeedPayload(entity), MaxCalls)
        \/ ManagerSnapshot(h)
        \/ ManagerSnapshotError(h, "permission-denied")

MirrorSpec == Init /\ [][MirrorNext]_vars


\* The listener of hook h has a snapshot to deliver.
SnapshotDue(h) ==
    /\ mirror[h].listening
    /\ mirror[h].loading \/ mirror[h].data # ManagerQuery(remote)

\* The success callback of hook h's listener ran in this step.
SnapshotDelivered(h) == mirror'[h] # mirror[h] /\ mirror'[h].listening

\* C21: reads are never gated. Whatever isOnline, authChecking and user are, a
\* snapshot the listener has to deliver can be delivered, and its delivery
\* makes the mirror the query's result and clears loading, leaving the gate
\* state as it was.
C21_ReadsNeverGated ==
    /\ [](SnapshotDue(1) => ENABLED ManagerSnapshot(1))
    /\ [][SnapshotDelivered(1)
            => /\ mirror'[1].data = ManagerQuery(remote)
               /\ ~mirror'[1].loading
               /\ state' = state]_vars

\* A snapshot with a document was delivered to a hook that is offline, still
\* checking authentication, and has no user.
C21_Witness ==
    /\ ~state[1].isOnline
    /\ state[1].authChecking
    /\ state[1].user = NoUser
    /\ mirror[1].listening
    /\ ~mirror[1].loading
    /\ mirror[1].data # <<>>

\* C22: a createProject call with a valid payload made from a render that is
\* online, signed in and under quota issues addDoc; when addDoc resolves the
\* call returns an identity no document had, and the snapshot delivered while
\* that create is the hook's latest call has the new project first.
C22_CreatedProjectAtHead ==
    [][entity = "project" =>
         /\ \A p \in CreatePayloads(entity) :
               (/\ CreateAdmitted(1)
                /\ ValidateCreate(entity, p) = NoError
                /\ createEntity(1, p, MaxCalls + MaxPasses))
               => /\ last' = last
                  /\ Len(pending'[1]) = Len(pending[1]) + 1
                  /\ pending'[1][Len(pending'[1])].pc = "addDoc"
         /\ \A i \in 1..MaxPending :
               AddResponse(1, i)
               => /\ last'[1].kind = "create"
                  /\ last'[1].status = "returned"
                  /\ \A d \in remote : d.id # last'[1].id
                  /\ \E d \in remote' : d.id = last'[1].id
         /\ (/\ last[1].kind = "create"
             /\ last[1].status = "returned"
             /\ SnapshotDelivered(1))
            => /\ mirror'[1].data # <<>>
               /\ mirror'[1].data[1].id = last[1].id]_vars

\* The project created after the seed is first in the mirror, the seed second.
C22_Witness ==
    /\ entity = "project"
    /\ last[1] = Returned("create", 2)
    /\ Len(mirror[1].data) = 2
    /\ mirror[1].data[1].id = 2
    /\ mirror[1].data[2].id = 1
    /\ ~mirror[1].loading


-----------------------------------------------------------------------------
(* The admin tabs: TestimonialsTab, ProjectsTab, the about tab and           *)
(* ConnectTab. The tab shown is the one of the entity; the hook call a       *)
(* handler awaits resolves or rejects.                                       *)

SuccessDelay == 3000
ToastTickMs == SuccessDelay \div TicksPerToast

\* ConnectTab keeps its toast timer in an effect on [successMessage] with a
\* clearTimeout cleanup; the other tabs call setTimeout in showSuccess.
TimerInEffect == entity = "contact"

\* The about tab and ConnectTab have one Save handler for create and update and
\* an effect that copies the hook's object into the form when it changes.
OneObjectTab == entity \in Singletons

SuccessText(kind) ==
    IF kind = "create" THEN "created successfully!"
    ELSE IF kind = "update" THEN "updated successfully!"
    ELSE "deleted successfully!"

\* setSuccessMessage(null) of ConnectTab: the effect's cleanup clears the timer.
clearSuccess(t) == [t EXCEPT !.successMessage = ""]

\* The timers after the success message is set to msg. showSuccess adds a
\* timer and leaves the earlier ones; in ConnectTab the effect runs again only
\* if the message changed, clearing the earlier timer and setting a new one.
TimersAfter(msg) ==
    IF TimerInEffect
    THEN (IF msg = tab.successMessage THEN timers
          ELSE IF msg = "" THEN {} ELSE {now + SuccessDelay})
    ELSE timers \cup {now + SuccessDelay}

\* The New / Edit buttons: the form opens (ConnectTab.handleEdit also clears
\* the toast).
startEdit(mode) ==
    /\ tab.mode = "view"
    /\ tab' = [(IF TimerInEffect THEN clearSuccess(tab) ELSE tab)
                  EXCEPT !.mode = mode, !.dirty = FALSE]
    /\ timers' = IF TimerInEffect THEN TimersAfter("") ELSE timers
    /\ UNCHANGED <<managerVars, fetcherVars, mirror, entity, now, remote>>

\* The user changes a field of the open form.
EditField ==
    /\ tab.mode # "view"
    /\ ~tab.dirty
    /\ tab' = [tab EXCEPT !.dirty = TRUE]
    /\ UNCHANGED <<managerVars, fetcherVars, mirror, timers, entity, now, remote>>

\* The Cancel button: the form is reset and closed (disabled while saving in
\* ConnectTab and ProjectsTab).
handleCancel ==
    /\ tab.mode # "view"
    /\ entity \in {"contact", "project"} => ~tab.saving
    /\ tab' = [(IF TimerInEffect THEN clearSuccess(tab) ELSE tab)
                  EXCEPT !.mode = "view", !.dirty = FALSE]
    /\ timers' = IF TimerInEffect THEN TimersAfter("") ELSE timers
    /\ UNCHANGED <<managerVars, fetcherVars, mirror, entity, now, remote>>

\* handleCreate / handleUpdate / handleSave up to the await: the form is valid
\* and the button enabled; saving is set (ConnectTab also clears the toast).
handleSave(kind) ==
    /\ tab.mode # "view"
    /\ tab.dirty
    /\ ~tab.saving
    /\ tab.call = "none"
    /\ OneObjectTab \/ kind = (IF tab.mode = "create" THEN "create" ELSE "update")
    /\ tab' = [(IF TimerInEffect THEN clearSuccess(tab) ELSE tab)
                  EXCEPT !.saving = TRUE, !.call = kind]
    /\ timers' = IF TimerInEffect THEN TimersAfter("") ELSE timers
    /\ UNCHANGED <<managerVars, fetcherVars, mirror, entity, now, remote>>

\* handleDelete up to the await (ProjectsTab does not set saving).
handleDelete ==
    /\ ~tab.saving
    /\ tab.call = "none"
    /\ tab' = [tab EXCEPT !.saving = (entity # "project"), !.call = "delete"]
    /\ UNCHANGED <<managerVars, fetcherVars, mirror, timers, entity, now, remote>>

\* The awaited call rejects and the form is reset and closed all the same.
CallRejectsClosingForm ==
    /\ tab.call # "none"
    /\ tab' = [tab EXCEPT !.saving = FALSE, !.call = "none", !.logged = tab.call,
                          !.mode = "view", !.dirty = FALSE]
    /\ UNCHANGED <<managerVars, fetcherVars, mirror, timers, entity, now, remote>>

\* The awaited call rejects: the catch block logs, finally clears saving.
CallRejects ==
    /\ tab.call # "none"
    /\ tab' = [tab EXCEPT !.saving = FALSE, !.call = "none", !.logged = tab.call]
    /\ UNCHANGED <<managerVars, fetcherVars, mirror, timers, entity, now, remote>>

\* The awaited call resolves: the success message is shown, the form is reset
\* (TestimonialsTab, ProjectsTab) and closed, finally clears saving. After a
\* delete, only ConnectTab closes the form.
CallResolves ==
    /\ tab.call # "none"
    /\ LET save == tab.call # "delete"
           closes == save \/ entity = "contact"
       IN tab' = [tab EXCEPT !.successMessage = SuccessText(tab.call),
                             !.shownAt = now,
                             !.dirty = IF save /\ ~OneObjectTab THEN FALSE ELSE @,
                             !.mode = IF closes THEN "view" ELSE @,
                             !.saving = FALSE,
                             !.call = "none"]
    /\ timers' = TimersAfter(SuccessText(tab.call))
    /\ UNCHANGED <<managerVars, fetcherVars, mirror, entity, now, remote>>

\* The effect on [aboutMe] / [contact]: a snapshot changed the hook's object,
\* and the form is overwritten with it.
SyncForm ==
    /\ OneObjectTab
    /\ tab.dirty
    /\ tab' = [tab EXCEPT !.dirty = FALSE]
    /\ UNCHANGED <<managerVars, fetcherVars, mirror, timers, entity, now, remote>>

\* A timer is due: its callback clears the success message.
TimerFires ==
    /\ \E due \in timers :
          /\ due <= now
          /\ timers' = timers \ {due}
    /\ tab' = clearSuccess(tab)
    /\ UNCHANGED <<managerVars, fetcherVars, mirror, entity, now, remote>>

\* Time passes, up to the next timer that is due.
ToastTick ==
    /\ now < MaxToastTicks * ToastTickMs
    /\ \A due \in timers : due > now
    /\ now' = now + ToastTickMs
    /\ UNCHANGED <<managerVars, fetcherVars, viewVars, entity, remote>>

TabNext ==
    \/ \E mode \in {"create", "edit"} : startEdit(mode)
    \/ EditField
    \/ handleCancel
    \/ \E kind \in {"create", "update"} : handleSave(kind)
    \/ handleDelete
    \/ CallResolves
    \/ CallRejects
    \/ SyncForm
    \/ TimerFires
    \/ ToastTick

\* The tab workload starts with an online session and an empty collection; the
\* tab's handlers read neither.
TabInit == Init /\ state[1].isOnline /\ remote = {}

TabSpec == TabInit /\ [][TabNext]_vars


\* C24: when the create or update call awaited by a tab's form rejects, the
\* mode, the form data and the success message are what they were (in
\* ConnectTab, whose Save had cleared it, there is no success message), no
\* toast timer is added, and saving is false again.
C24_FailureKeepsForm ==
    [][(tab.call \in {"create", "update"} /\ CallRejects)
         => /\ tab'.mode = tab.mode
            /\ tab'.dirty = tab.dirty
            /\ tab'.successMessage = tab.successMessage
            /\ TimerInEffect => tab'.successMessage = ""
            /\ timers' = timers
            /\ ~tab'.saving]_vars

\* A save from the edit form failed: the form is still open with the user's
\* input, nothing is being saved and no success message is shown.
C24_Witness ==
    /\ tab.logged = "update"
    /\ tab.mode = "edit"
    /\ tab.dirty
    /\ ~tab.saving
    /\ tab.call = "none"
    /\ tab.successMessage = ""
    /\ tab.shownAt = NoTime

\* A timer callback clears the success message shown.
TimerClearsToast == tab.successMessage # "" /\ tab' = clearSuccess(tab)

\* C30: a timer clears the success message only when the message has been
\* shown for the whole delay.
C30_ToastLastsFullDelay ==
    [][TimerClearsToast => now - tab.shownAt = SuccessDelay]_vars

====
